---------------------------- MODULE Spec2Model ----------------------------
(***************************************************************************)
(* A model of the chess core of rust_uci_chess_engine: the square algebra *)
(* (Case, Dir), pieces, moves and their flags, the Board with its FEN     *)
(* codec, apply_move, and the move generator of move_generation.rs.       *)
(*                                                                         *)
(* Conventions.                                                            *)
(*   Option<T>   None is <<>>, Some(x) is <<x>>.                           *)
(*   String      a sequence of one-character strings.                      *)
(*   usize       a Case index is an integer; an index outside 0..63 is    *)
(*               what an unchecked offset of get_neighbour produces (a    *)
(*               negative one stands for a usize subtraction that         *)
(*               underflowed: a panic in a debug build, a wrapped huge    *)
(*               index in a release build).  Either way using it to index *)
(*               the board panics.                                         *)
(*   panic       a generator that panics yields the one-element list      *)
(*               <<PanicMove>>; apply_move that panics yields PanicBoard. *)
(***************************************************************************)
EXTENDS Integers, Sequences, FiniteSets, TLC

VARIABLES
    pc,      \* "start" | "parsed" | "emitted" | "error" | "play" | "panic"
             \* | "case" | "neighbour" | "text" | "move" | "perft" | "counted"
    arg,     \* Option: the argument of the function called alone (SpecFn)
    fen,     \* the FEN text given to Board::from_str
    board,   \* the current Board
    out,     \* the text Board::to_fen produced, <<>> before; in SpecFn
             \* what the function called returned
    prev,    \* Option<Board>: the board the last move was applied to
    mv,      \* Option<Move>: the last move applied
    ply      \* number of moves applied since the board was loaded

vars == <<pc, arg, fen, board, out, prev, mv, ply>>

None == <<>>
Some(x) == <<x>>

-----------------------------------------------------------------------------
(* piece.rs *)

White == "White"
Black == "Black"
Color == {White, Black}

\* Color::flip
flip(c) == IF c = White THEN Black ELSE White

PieceKind == {"King", "Queen", "Rook", "Bishop", "Knight", "Pawn"}

Piece(k, c) == [kind |-> k, color |-> c]

\* impl Display for Color
ColorToString(c) == IF c = White THEN <<"w">> ELSE <<"b">>

\* impl Display for PieceKind
PieceKindToString(k) ==
    CASE k = "King" -> "k"
      [] k = "Queen" -> "q"
      [] k = "Rook" -> "r"
      [] k = "Bishop" -> "b"
      [] k = "Knight" -> "n"
      [] k = "Pawn" -> "p"

\* str::to_uppercase on the six piece letters
to_uppercase(ch) ==
    CASE ch = "k" -> "K"
      [] ch = "q" -> "Q"
      [] ch = "r" -> "R"
      [] ch = "b" -> "B"
      [] ch = "n" -> "N"
      [] ch = "p" -> "P"

\* impl Display for Piece
PieceToString(p) ==
    IF p.color = White THEN to_uppercase(PieceKindToString(p.kind))
    ELSE PieceKindToString(p.kind)

\* impl FromStr for Piece: Ok(piece) as Some, Err(PieceParseError) as None
PieceFromStr(ch) ==
    CASE ch = "K" -> Some(Piece("King", White))
      [] ch = "Q" -> Some(Piece("Queen", White))
      [] ch = "R" -> Some(Piece("Rook", White))
      [] ch = "B" -> Some(Piece("Bishop", White))
      [] ch = "N" -> Some(Piece("Knight", White))
      [] ch = "P" -> Some(Piece("Pawn", White))
      [] ch = "k" -> Some(Piece("King", Black))
      [] ch = "q" -> Some(Piece("Queen", Black))
      [] ch = "r" -> Some(Piece("Rook", Black))
      [] ch = "b" -> Some(Piece("Bishop", Black))
      [] ch = "n" -> Some(Piece("Knight", Black))
      [] ch = "p" -> Some(Piece("Pawn", Black))
      [] OTHER -> None

-----------------------------------------------------------------------------
(* board.rs: Case and Dir *)

Dir == {"Up", "UpRight", "Right", "DownRight", "Down", "DownLeft", "Left",
        "UpLeft", "Cav1", "Cav2", "Cav4", "Cav5", "Cav7", "Cav8", "Cav10",
        "Cav11"}

\* Case::get_line
get_line(c) == c \div 8

\* Case::get_column
get_column(c) == c % 8

\* Case::get_neighbour with the Left arm bounded by the index instead of the
\* column, so that a step to the left wraps to the line below
get_neighbour_wrap(c, dir, distance) ==
    CASE dir = "Up" ->
            IF get_line(c) < 8 - distance THEN Some(c + 8 * distance) ELSE None
      [] dir = "UpRight" ->
            IF get_line(c) < 8 - distance /\ get_column(c) < 8 - distance
            THEN Some(c + 9 * distance) ELSE None
      [] dir = "Right" ->
            IF get_column(c) < 8 - distance THEN Some(c + 1 * distance) ELSE None
      [] dir = "DownRight" ->
            IF get_line(c) >= distance /\ get_column(c) < 8 - distance
            THEN Some(c - 7 * distance) ELSE None
      [] dir = "Down" ->
            IF get_line(c) >= distance THEN Some(c - 8 * distance) ELSE None
      [] dir = "DownLeft" ->
            IF get_line(c) >= distance /\ get_column(c) >= distance
            THEN Some(c - 9 * distance) ELSE None
      [] dir = "Left" ->
            IF c >= distance THEN Some(c - 1 * distance) ELSE None
      [] dir = "UpLeft" ->
            IF get_line(c) < 8 - distance /\ get_column(c) >= distance
            THEN Some(c + 7 * distance) ELSE None
      [] dir = "Cav1" ->
            IF get_line(c) < 7 /\ get_column(c) < 8 THEN Some(c + 17) ELSE None
      [] dir = "Cav2" ->
            IF get_line(c) < 8 /\ get_column(c) < 7 THEN Some(c + 10) ELSE None
      [] dir = "Cav4" ->
            IF get_line(c) >= 1 /\ get_column(c) < 7 THEN Some(c - 6) ELSE None
      [] dir = "Cav5" ->
            IF get_line(c) >= 2 /\ get_column(c) < 8 THEN Some(c - 15) ELSE None
      [] dir = "Cav7" ->
            IF get_line(c) >= 2 /\ get_column(c) >= 1 THEN Some(c - 17) ELSE None
      [] dir = "Cav8" ->
            IF get_line(c) >= 1 /\ get_column(c) >= 2 THEN Some(c - 10) ELSE None
      [] dir = "Cav10" ->
            IF get_line(c) < 8 /\ get_column(c) >= 2 THEN Some(c - 10) ELSE None
      [] dir = "Cav11" ->
            IF get_line(c) < 7 /\ get_column(c) >= 1 THEN Some(c - 10) ELSE None

\* Case::get_neighbour
get_neighbour(c, dir, distance) ==
    CASE dir = "Up" ->
            IF get_line(c) < 8 - distance THEN Some(c + 8 * distance) ELSE None
      [] dir = "UpRight" ->
            IF get_line(c) < 8 - distance /\ get_column(c) < 8 - distance
            THEN Some(c + 9 * distance) ELSE None
      [] dir = "Right" ->
            IF get_column(c) < 8 - distance THEN Some(c + 1 * distance) ELSE None
      [] dir = "DownRight" ->
            IF get_line(c) >= distance /\ get_column(c) < 8 - distance
            THEN Some(c - 7 * distance) ELSE None
      [] dir = "Down" ->
            IF get_line(c) >= distance THEN Some(c - 8 * distance) ELSE None
      [] dir = "DownLeft" ->
            IF get_line(c) >= distance /\ get_column(c) >= distance
            THEN Some(c - 9 * distance) ELSE None
      [] dir = "Left" ->
            IF get_column(c) >= distance THEN Some(c - 1 * distance) ELSE None
      [] dir = "UpLeft" ->
            IF get_line(c) < 8 - distance /\ get_column(c) >= distance
            THEN Some(c + 7 * distance) ELSE None
      [] dir = "Cav1" ->
            IF get_line(c) < 7 /\ get_column(c) < 8 THEN Some(c + 17) ELSE None
      [] dir = "Cav2" ->
            IF get_line(c) < 8 /\ get_column(c) < 7 THEN Some(c + 10) ELSE None
      [] dir = "Cav4" ->
            IF get_line(c) >= 1 /\ get_column(c) < 7 THEN Some(c - 6) ELSE None
      [] dir = "Cav5" ->
            IF get_line(c) >= 2 /\ get_column(c) < 8 THEN Some(c - 15) ELSE None
      [] dir = "Cav7" ->
            IF get_line(c) >= 2 /\ get_column(c) >= 1 THEN Some(c - 17) ELSE None
      [] dir = "Cav8" ->
            IF get_line(c) >= 1 /\ get_column(c) >= 2 THEN Some(c - 10) ELSE None
      [] dir = "Cav10" ->
            IF get_line(c) < 8 /\ get_column(c) >= 2 THEN Some(c - 10) ELSE None
      [] dir = "Cav11" ->
            IF get_line(c) < 7 /\ get_column(c) >= 1 THEN Some(c - 10) ELSE None

\* An index the board array has: indexing with any other panics.
InBoard(i) == i >= 0 /\ i <= 63

-----------------------------------------------------------------------------
(* board.rs: Castle *)

Castle(wk, wq, bk, bq) ==
    [white_king |-> wk, white_queen |-> wq, black_king |-> bk, black_queen |-> bq]

\* The for loop of Castle::from_str from character i on: Ok as Some, Err as None
RECURSIVE CastleFromChars(_, _, _)
CastleFromChars(s, i, castle) ==
    IF i > Len(s) THEN Some(castle)
    ELSE CASE s[i] = "K" -> CastleFromChars(s, i + 1, [castle EXCEPT !.white_king = TRUE])
           [] s[i] = "Q" -> CastleFromChars(s, i + 1, [castle EXCEPT !.white_queen = TRUE])
           [] s[i] = "k" -> CastleFromChars(s, i + 1, [castle EXCEPT !.black_king = TRUE])
           [] s[i] = "q" -> CastleFromChars(s, i + 1, [castle EXCEPT !.black_queen = TRUE])
           [] OTHER -> None

\* impl FromStr for Castle
CastleFromStr(s) ==
    IF s = <<"-">> THEN Some(Castle(FALSE, FALSE, FALSE, FALSE))
    ELSE CastleFromChars(s, 1, Castle(FALSE, FALSE, FALSE, FALSE))

\* impl Display for Castle
CastleToString(castle) ==
    IF ~(castle.black_queen /\ castle.black_king /\ castle.white_queen /\ castle.white_king)
    THEN <<"-">>
    ELSE (IF castle.white_king THEN <<"K">> ELSE <<>>)
         \o (IF castle.white_queen THEN <<"Q">> ELSE <<>>)
         \o (IF castle.black_king THEN <<"k">> ELSE <<>>)
         \o (IF castle.black_queen THEN <<"q">> ELSE <<>>)

-----------------------------------------------------------------------------
(* moves.rs *)

MoveKind == {"Quiet", "DoublePawnPush", "KingCastle", "QueenCastle",
             "SimpleCapture", "EnPassantCapture",
             "KnightPromotion", "BishopPromotion", "RookPromotion", "QueenPromotion",
             "KnightCapturePromotion", "BishopCapturePromotion",
             "RookCapturePromotion", "QueenCapturePromotion"}

\* MoveFlags; kind is the discriminant stored in the repr(C) union SpecialFlag
MoveFlags(capture, promotion, kind) ==
    [capture |-> capture, promotion |-> promotion, kind |-> kind]

\* impl From<MoveKind> for MoveFlags
MoveFlagsFrom(kind) ==
    CASE kind = "Quiet" -> MoveFlags(FALSE, FALSE, 0)
      [] kind = "DoublePawnPush" -> MoveFlags(FALSE, FALSE, 1)
      [] kind = "KingCastle" -> MoveFlags(FALSE, FALSE, 2)
      [] kind = "QueenCastle" -> MoveFlags(FALSE, FALSE, 3)
      [] kind = "SimpleCapture" -> MoveFlags(TRUE, FALSE, 0)
      [] kind = "EnPassantCapture" -> MoveFlags(TRUE, FALSE, 1)
      [] kind = "KnightPromotion" -> MoveFlags(FALSE, TRUE, 0)
      [] kind = "BishopPromotion" -> MoveFlags(FALSE, TRUE, 1)
      [] kind = "RookPromotion" -> MoveFlags(FALSE, TRUE, 2)
      [] kind = "QueenPromotion" -> MoveFlags(FALSE, TRUE, 3)
      [] kind = "KnightCapturePromotion" -> MoveFlags(TRUE, TRUE, 0)
      [] kind = "BishopCapturePromotion" -> MoveFlags(TRUE, TRUE, 1)
      [] kind = "RookCapturePromotion" -> MoveFlags(TRUE, TRUE, 2)
      [] kind = "QueenCapturePromotion" -> MoveFlags(TRUE, TRUE, 3)

\* impl Into<MoveKind> for MoveFlags
MoveFlagsInto(flags) ==
    CASE ~flags.capture /\ ~flags.promotion ->
            (CASE flags.kind = 0 -> "Quiet"
               [] flags.kind = 1 -> "DoublePawnPush"
               [] flags.kind = 2 -> "KingCastle"
               [] flags.kind = 3 -> "QueenCastle")
      [] flags.capture /\ ~flags.promotion ->
            (CASE flags.kind = 0 -> "SimpleCapture"
               [] flags.kind = 1 -> "EnPassantCapture")
      [] ~flags.capture /\ flags.promotion ->
            (CASE flags.kind = 0 -> "KnightPromotion"
               [] flags.kind = 1 -> "BishopPromotion"
               [] flags.kind = 2 -> "RookPromotion"
               [] flags.kind = 3 -> "QueenPromotion")
      [] flags.capture /\ flags.promotion ->
            (CASE flags.kind = 0 -> "KnightCapturePromotion"
               [] flags.kind = 1 -> "BishopCapturePromotion"
               [] flags.kind = 2 -> "RookCapturePromotion"
               [] flags.kind = 3 -> "QueenCapturePromotion")

\* Move::new
Move(from, to, kind) == [from |-> from, to |-> to, flags |-> MoveFlagsFrom(kind)]

\* Move::is_capture
is_capture(m) == m.flags.capture

\* Move::is_promotion
is_promotion(m) == m.flags.promotion

\* Move::get_kind
get_kind(m) == MoveFlagsInto(m.flags)

\* The list a generator yields when it panics: no Move::new builds this move,
\* because every square of a generated move has indexed the board first.
PanicMove == [from |-> 64, to |-> 64, flags |-> MoveFlags(FALSE, FALSE, 0)]

Panicked(moves) == \E i \in DOMAIN moves : moves[i] = PanicMove

-----------------------------------------------------------------------------
(* board.rs: Board *)

Cases == 0 .. 63

\* Board::new_empty_board
new_empty_board ==
    [board |-> [i \in Cases |-> None],
     side |-> White,
     castle |-> CastleFromStr(<<"Q", "K", "q", "k">>)[1],
     en_passant |-> None,
     halfmove |-> 0,
     moves |-> 1]

\* What apply_move yields when it panics
PanicBoard == [new_empty_board EXCEPT !.side = "panic"]

\* The promotion arms of apply_move: the promoted piece lands on mv.to
ApplyPromotion(sq, m, kind) ==
    IF sq[m.from] = None THEN None   \* new[&mv.from].unwrap()
    ELSE Some([[sq EXCEPT ![m.to] = Some(Piece(kind, sq[m.from][1].color))]
                   EXCEPT ![m.from] = None])

\* ApplySimple without its second statement: the moving piece is copied to
\* mv.to and mv.from is left as it was
ApplySimpleKeep(sq, m) == [sq EXCEPT ![m.to] = sq[m.from]]

\* The default arm of apply_move (Quiet and SimpleCapture) and the first two
\* statements of the DoublePawnPush and EnPassantCapture arms
ApplySimple(sq, m) == [[sq EXCEPT ![m.to] = sq[m.from]] EXCEPT ![m.from] = None]

\* ApplyCastleArm without its last statement: the rook is copied to its
\* target and its source is left as it was
ApplyCastleArmKeep(sq, m, rock_target, rock_source) ==
    IF rock_target = None \/ rock_source = None THEN None
    ELSE Some([[[sq EXCEPT ![m.to] = sq[m.from]]
                    EXCEPT ![rock_target[1]] = sq[rock_source[1]]]
                    EXCEPT ![m.from] = None])

\* The KingCastle and QueenCastle arms of apply_move, given the two
\* neighbours of mv.to they unwrap
ApplyCastleArm(sq, m, rock_target, rock_source) ==
    IF rock_target = None \/ rock_source = None THEN None
    ELSE Some([[[[sq EXCEPT ![m.to] = sq[m.from]]
                     EXCEPT ![rock_target[1]] = sq[rock_source[1]]]
                     EXCEPT ![m.from] = None]
                     EXCEPT ![rock_source[1]] = None])

\* The EnPassantCapture arm of apply_move, given the square of the taken pawn
ApplyEnPassantArm(sq, m, taken) ==
    IF taken = None THEN None
    ELSE Some([ApplySimple(sq, m) EXCEPT ![taken[1]] = None])

\* The squares of the new board of apply_move for a move of the given kind,
\* None when the arm panics
ApplySquares(sq, m, kind) ==
    CASE kind = "DoublePawnPush" ->
            IF get_line(m.from) \in {1, 6} THEN Some(ApplySimple(sq, m)) ELSE None
      [] kind = "KingCastle" ->
            ApplyCastleArm(sq, m, get_neighbour(m.to, "Left", 1),
                           get_neighbour(m.to, "Right", 1))
      [] kind = "QueenCastle" ->
            ApplyCastleArm(sq, m, get_neighbour(m.to, "Right", 1),
                           get_neighbour(m.to, "Left", 2))
      [] kind = "EnPassantCapture" ->
            ApplyEnPassantArm(sq, m,
                IF get_line(m.to) = 2 THEN get_neighbour(m.to, "Up", 1)
                ELSE IF get_line(m.to) = 5 THEN get_neighbour(m.to, "Down", 1)
                ELSE None)
      [] kind \in {"KnightPromotion", "KnightCapturePromotion"} ->
            ApplyPromotion(sq, m, "Knight")
      [] kind \in {"BishopPromotion", "BishopCapturePromotion"} ->
            ApplyPromotion(sq, m, "Bishop")
      [] kind \in {"RookPromotion", "RookCapturePromotion"} ->
            ApplyPromotion(sq, m, "Rook")
      [] kind \in {"QueenPromotion", "QueenCapturePromotion"} ->
            ApplyPromotion(sq, m, "Queen")
      [] OTHER -> Some(ApplySimple(sq, m))

\* The en passant target of the new board of apply_move: only the
\* DoublePawnPush arm assigns new.en_passant, every other arm leaves the
\* clone's
ApplyEnPassant(b, m, kind) ==
    IF kind = "DoublePawnPush"
    THEN IF get_line(m.from) = 1 THEN get_neighbour(m.from, "Up", 1)
         ELSE get_neighbour(m.from, "Down", 1)
    ELSE b.en_passant

\* The halfmove clock of apply_move's result
ApplyHalfmove(b, m) == IF is_capture(m) THEN 0 ELSE b.halfmove + 1

\* The side to move of apply_move's result
ApplySide(b) == IF b.side = White THEN Black ELSE White

\* ApplyMoves with the increment in both arms of the match on self.side
ApplyMovesBoth(b) == b.moves + 1

\* The move number of apply_move's result.  moves and halfmove are u32; the
\* boards of the model keep both far below u32::MAX, where += 1 overflows.
ApplyMoves(b) == IF b.side = White THEN b.moves ELSE b.moves + 1

\* ApplyCastle with the rights of a fresh board written back
ApplyCastleFresh(b, m) == Castle(TRUE, TRUE, TRUE, TRUE)

\* The castle rights of apply_move's result: those of the clone, no arm and
\* no later statement of apply_move assigns new.castle
ApplyCastle(b, m) == b.castle

\* Board::apply_move
apply_move(b, m) ==
    LET build(squares) ==
            IF squares = None THEN PanicBoard
            ELSE [board |-> squares[1],
                  side |-> ApplySide(b),
                  castle |-> ApplyCastle(b, m),
                  en_passant |-> ApplyEnPassant(b, m, get_kind(m)),
                  halfmove |-> ApplyHalfmove(b, m),
                  moves |-> ApplyMoves(b)]
    IN  IF ~InBoard(m.from) \/ ~InBoard(m.to) THEN PanicBoard
        ELSE build(ApplySquares(b.board, m, get_kind(m)))

-----------------------------------------------------------------------------
(* move_generation.rs *)

\* Board::is_adversary
is_adversary(b, case, color) ==
    IF b.board[case] # None THEN b.board[case][1].color # color ELSE FALSE

\* Board::all_moves_in_dir, the while loop from distance dist on
RECURSIVE all_moves_in_dir_from(_, _, _, _, _)
all_moves_in_dir_from(b, from, dir, max, dist) ==
    LET body(to) ==
            IF to = None THEN <<>>
            ELSE IF ~InBoard(to[1]) THEN <<PanicMove>>   \* self[&to] out of bounds
            ELSE IF b.board[to[1]] # None
                 THEN IF b.board[to[1]][1].color # b.side
                      THEN <<Move(from, to[1], "SimpleCapture")>>
                      ELSE <<>>
                 ELSE <<Move(from, to[1], "Quiet")>>
                      \o (IF dist = max THEN <<>>
                          ELSE all_moves_in_dir_from(b, from, dir, max, dist + 1))
    IN  body(get_neighbour(from, dir, dist))

\* Board::all_moves_in_dir
all_moves_in_dir(b, from, dir, max) == all_moves_in_dir_from(b, from, dir, max, 1)

\* Board::moves_for_dir
RECURSIVE moves_for_dir(_, _, _, _)
moves_for_dir(b, case, dirs, max) ==
    IF dirs = <<>> THEN <<>>
    ELSE all_moves_in_dir(b, case, Head(dirs), max)
         \o moves_for_dir(b, case, Tail(dirs), max)

\* Board::pawn_attack_moves, the body of the for loop for one side
pawn_attack_moves_side(b, case, side, promotion_line) ==
    LET body(target) ==
            IF target = None THEN <<>>
            ELSE (IF is_adversary(b, target[1], b.side)
                  THEN IF get_line(target[1]) = promotion_line
                       THEN <<Move(case, target[1], "QueenCapturePromotion"),
                              Move(case, target[1], "BishopCapturePromotion"),
                              Move(case, target[1], "RookCapturePromotion"),
                              Move(case, target[1], "KnightCapturePromotion")>>
                       ELSE <<Move(case, target[1], "SimpleCapture")>>
                  ELSE <<>>)
                 \o (IF b.en_passant # None /\ target[1] = b.en_passant[1]
                     THEN <<Move(case, target[1], "EnPassantCapture")>>
                     ELSE <<>>)
    IN  body(get_neighbour(case, side, 1))

\* Board::pawn_attack_moves
pawn_attack_moves(b, case) ==
    IF b.side = White
    THEN pawn_attack_moves_side(b, case, "UpLeft", 7)
         \o pawn_attack_moves_side(b, case, "UpRight", 7)
    ELSE pawn_attack_moves_side(b, case, "DownLeft", 0)
         \o pawn_attack_moves_side(b, case, "DownRight", 0)

\* Board::pawn_quiet_moves with the queen as the only promotion
pawn_quiet_moves_queen(b, case) ==
    LET front == IF b.side = White THEN "Up" ELSE "Down"
        start_line == IF b.side = White THEN 1 ELSE 6
        promotion_line == IF b.side = White THEN 7 ELSE 0
        double(front2) ==
            IF b.board[front2[1]] = None
            THEN <<Move(case, front2[1], "DoublePawnPush")>> ELSE <<>>
        body(front_case) ==
            IF front_case = None THEN <<PanicMove>>   \* unwrap of None
            ELSE IF b.board[front_case[1]] = None
            THEN (IF get_line(front_case[1]) = promotion_line
                  THEN <<Move(case, front_case[1], "QueenPromotion")>>
                  ELSE <<Move(case, front_case[1], "Quiet")>>)
                 \o (IF get_line(case) = start_line
                     THEN double(get_neighbour(case, front, 2)) ELSE <<>>)
            ELSE <<>>
    IN  body(get_neighbour(case, front, 1))

\* Board::pawn_quiet_moves
pawn_quiet_moves(b, case) ==
    LET front == IF b.side = White THEN "Up" ELSE "Down"
        start_line == IF b.side = White THEN 1 ELSE 6
        promotion_line == IF b.side = White THEN 7 ELSE 0
        double(front2) ==
            IF b.board[front2[1]] = None
            THEN <<Move(case, front2[1], "DoublePawnPush")>> ELSE <<>>
        body(front_case) ==
            IF front_case = None THEN <<PanicMove>>   \* unwrap of None
            ELSE IF b.board[front_case[1]] = None
            THEN (IF get_line(front_case[1]) = promotion_line
                  THEN <<Move(case, front_case[1], "QueenPromotion"),
                         Move(case, front_case[1], "BishopPromotion"),
                         Move(case, front_case[1], "RookPromotion"),
                         Move(case, front_case[1], "KnightPromotion")>>
                  ELSE <<Move(case, front_case[1], "Quiet")>>)
                 \o (IF get_line(case) = start_line
                     THEN double(get_neighbour(case, front, 2)) ELSE <<>>)
            ELSE <<>>
    IN  body(get_neighbour(case, front, 1))

QueenDirs == <<"Up", "UpLeft", "UpRight", "Right", "Left", "DownLeft", "DownRight", "Down">>
RookDirs == <<"Up", "Right", "Left", "Down">>
BishopDirs == <<"UpLeft", "UpRight", "DownLeft", "DownRight">>
KnightDirs == <<"Cav1", "Cav2", "Cav4", "Cav5", "Cav7", "Cav8", "Cav10", "Cav11">>

\* The directions and the maximal distance get_attack_move_for_case gives
\* moves_for_dir for a piece that is no pawn
AttackDirs(kind) ==
    CASE kind = "Queen" -> QueenDirs
      [] kind = "Rook" -> RookDirs
      [] kind = "Bishop" -> BishopDirs
      [] kind = "Knight" -> KnightDirs
      [] kind = "King" -> QueenDirs

AttackMax(kind) == IF kind \in {"Knight", "King"} THEN 1 ELSE 8

\* Board::get_attack_move_for_case: an Option<Vec<Move>>
get_attack_move_for_case(b, case) ==
    IF b.board[case] = None THEN None
    ELSE IF b.board[case][1].color # b.side THEN None
    ELSE IF b.board[case][1].kind = "Pawn" THEN Some(pawn_attack_moves(b, case))
    ELSE Some(moves_for_dir(b, case, AttackDirs(b.board[case][1].kind),
                            AttackMax(b.board[case][1].kind)))

\* Option<Vec<Move>> flattened: what filter_map(..).flatten() keeps of it
Flatten(o) == IF o = None THEN <<>> ELSE o[1]

\* filter_map(get_attack_move_for_case).flatten() over the cases lo..hi, in
\* order (the range is halved to keep the evaluation shallow)
RECURSIVE attack_moves_in(_, _, _)
attack_moves_in(b, lo, hi) ==
    IF lo = hi THEN Flatten(get_attack_move_for_case(b, lo))
    ELSE attack_moves_in(b, lo, (lo + hi) \div 2)
         \o attack_moves_in(b, (lo + hi) \div 2 + 1, hi)

\* Board::get_attacked_case: the attack moves of color; the callers read
\* their to squares
get_attacked_case(b, color) == attack_moves_in([b EXCEPT !.side = color], 0, 63)

\* Board::get_pawn_control_case
get_pawn_control_case(b, case) ==
    IF b.board[case][1].color = White
    THEN get_neighbour(case, "UpRight", 1) \o get_neighbour(case, "UpLeft", 1)
    ELSE get_neighbour(case, "DownRight", 1) \o get_neighbour(case, "DownLeft", 1)

\* Board::get_pawn_controled_cases, as a set of cases
get_pawn_controled_cases(b, color) ==
    LET cases(control) == {control[i] : i \in DOMAIN control}
    IN  UNION {cases(get_pawn_control_case(b, p)) :
                p \in {c \in Cases : /\ b.board[c] # None
                                     /\ b.board[c][1].kind = "Pawn"
                                     /\ b.board[c][1].color = color}}

\* Board::get_controled_cases, as a set of cases; {64} when get_attacked_case panics
get_controled_cases(b, color) ==
    LET body(attacks) ==
            IF Panicked(attacks) THEN {64}
            ELSE {attacks[i].to : i \in DOMAIN attacks}
                 \cup get_pawn_controled_cases(b, color)
    IN  body(get_attacked_case(b, color))

\* Board::castle_move
castle_move(b) ==
    LET king_case == IF b.side = White THEN <<4, 5, 6>> ELSE <<60, 61, 62>>
        queen_case == IF b.side = White THEN <<4, 3, 2, 1>> ELSE <<60, 59, 58, 57>>
        can_king0 == IF b.side = White THEN b.castle.white_king ELSE b.castle.black_king
        can_queen0 == IF b.side = White THEN b.castle.white_queen ELSE b.castle.black_queen
        can_king == can_king0 /\ b.board[king_case[2]] = None /\ b.board[king_case[3]] = None
        can_queen == can_queen0 /\ b.board[queen_case[2]] = None
                        /\ b.board[queen_case[3]] = None /\ b.board[queen_case[4]] = None
        body(attacked_cases) ==
            IF attacked_cases = {64} THEN <<PanicMove>>
            ELSE (IF can_king /\ king_case[1] \notin attacked_cases
                     /\ king_case[2] \notin attacked_cases
                     /\ king_case[3] \notin attacked_cases
                  THEN <<Move(king_case[1], king_case[3], "KingCastle")>> ELSE <<>>)
                 \o (IF can_queen /\ queen_case[1] \notin attacked_cases
                        /\ queen_case[2] \notin attacked_cases
                        /\ queen_case[3] \notin attacked_cases
                     THEN <<Move(queen_case[1], queen_case[3], "QueenCastle")>> ELSE <<>>)
    IN  IF ~can_king0 /\ ~can_queen0 THEN <<>>
        ELSE IF ~can_king /\ ~can_queen THEN <<>>
        ELSE body(get_controled_cases(b, flip(b.side)))

\* Board::get_moves_for_case: an Option<Vec<Move>>
get_moves_for_case(b, case) ==
    IF b.board[case] = None THEN None
    ELSE IF b.board[case][1].color # b.side THEN None
    ELSE Some((IF b.board[case][1].kind = "King" THEN castle_move(b)
               ELSE IF b.board[case][1].kind = "Pawn" THEN pawn_quiet_moves(b, case)
               ELSE <<>>)
              \o get_attack_move_for_case(b, case)[1])

\* Board::get_kind_pos: Some(case) of the first king of color in 0..63, None
\* for the panic when there is none
get_kind_pos(b, color) ==
    LET first(kings) ==
            IF kings = {} THEN None
            ELSE Some(CHOOSE i \in kings : \A j \in kings : i <= j)
    IN  first({i \in Cases : b.board[i] # None /\ b.board[i][1].kind = "King"
                              /\ b.board[i][1].color = color})

\* Board::is_move_legal: "true", "false" or "panic"
is_move_legal(b, m) ==
    LET contains(attacked_case, king) ==
            IF Panicked(attacked_case) THEN "panic"
            ELSE IF king = None THEN "panic"
            ELSE IF \E i \in DOMAIN attacked_case : attacked_case[i].to = king[1]
                 THEN "false" ELSE "true"
        body(new_board) ==
            IF new_board = PanicBoard THEN "panic"
            ELSE contains(get_attacked_case(new_board, new_board.side),
                          get_kind_pos(new_board, flip(new_board.side)))
    IN  body(apply_move(b, m))

\* filter_map(get_moves_for_case).flatten() over the cases lo..hi, in order
RECURSIVE pseudo_moves_in(_, _, _)
pseudo_moves_in(b, lo, hi) ==
    IF lo = hi THEN Flatten(get_moves_for_case(b, lo))
    ELSE pseudo_moves_in(b, lo, (lo + hi) \div 2)
         \o pseudo_moves_in(b, (lo + hi) \div 2 + 1, hi)

\* One step of .filter(|mv| self.is_move_legal(mv)): a move whose check
\* panics is replaced by PanicMove
keep_legal(m, legal) ==
    IF legal = "panic" THEN <<PanicMove>>
    ELSE IF legal = "true" THEN <<m>> ELSE <<>>

\* .filter(|mv| self.is_move_legal(mv)) over the moves lo..hi of list, in order
RECURSIVE filter_legal_in(_, _, _, _)
filter_legal_in(b, list, lo, hi) ==
    IF lo > hi THEN <<>>
    ELSE IF lo = hi THEN keep_legal(list[lo], is_move_legal(b, list[lo]))
    ELSE filter_legal_in(b, list, lo, (lo + hi) \div 2)
         \o filter_legal_in(b, list, (lo + hi) \div 2 + 1, hi)

\* A list of moves, <<PanicMove>> alone when producing it panicked
Unwind(moves) == IF Panicked(moves) THEN <<PanicMove>> ELSE moves

\* Board::get_moves: the legal moves in generation order, <<PanicMove>> when
\* generating or filtering panics
get_moves(b) ==
    LET filter(pseudo) ==
            IF Panicked(pseudo) THEN <<PanicMove>>
            ELSE Unwind(filter_legal_in(b, pseudo, 1, Len(pseudo)))
    IN  filter(pseudo_moves_in(b, 0, 63))

\* The sum of two node counts, None when computing either panicked
AddNodes(x, y) == IF x = None \/ y = None THEN None ELSE Some(x[1] + y[1])

\* tests::perft and tests::sub_perft: the number of leaves of the move tree of
\* b at the depth, Some(n), or None when a get_moves or apply_move on the way
\* panics.  perft_sum is the sum over the moves lo..hi of the list.
RECURSIVE perft(_, _), perft_sum(_, _, _, _, _)
perft(b, depth) ==
    LET sum(moves) ==
            IF Panicked(moves) THEN None
            ELSE IF moves = <<>> THEN Some(0)
            ELSE perft_sum(b, moves, 1, Len(moves), depth)
    IN  IF b = PanicBoard THEN None
        ELSE IF depth = 0 THEN Some(1)
        ELSE sum(get_moves(b))

perft_sum(b, moves, lo, hi, depth) ==
    IF lo = hi THEN perft(apply_move(b, moves[lo]), depth - 1)
    ELSE AddNodes(perft_sum(b, moves, lo, (lo + hi) \div 2, depth),
                  perft_sum(b, moves, (lo + hi) \div 2 + 1, hi, depth))

-----------------------------------------------------------------------------
(* board.rs: the FEN codec *)

\* str::split: the pieces of s between occurrences of sep, cur the piece so far
RECURSIVE split_from(_, _, _, _)
split_from(s, sep, i, cur) ==
    IF i > Len(s) THEN <<cur>>
    ELSE IF s[i] = sep THEN <<cur>> \o split_from(s, sep, i + 1, <<>>)
    ELSE split_from(s, sep, i + 1, Append(cur, s[i]))

split(s, sep) == split_from(s, sep, 1, <<>>)

\* char::to_digit(10): Some(value) of a decimal digit
to_digit(ch) ==
    CASE ch = "0" -> Some(0) [] ch = "1" -> Some(1) [] ch = "2" -> Some(2)
      [] ch = "3" -> Some(3) [] ch = "4" -> Some(4) [] ch = "5" -> Some(5)
      [] ch = "6" -> Some(6) [] ch = "7" -> Some(7) [] ch = "8" -> Some(8)
      [] ch = "9" -> Some(9) [] OTHER -> None

\* u32::from_str on the digits from i on: Ok as Some, Err as None.  The texts
\* of the model have few digits, so the value stays far below u32::MAX.
RECURSIVE parse_u32_from(_, _, _)
parse_u32_from(s, i, acc) ==
    IF i > Len(s) THEN Some(acc)
    ELSE IF to_digit(s[i]) = None THEN None
    ELSE parse_u32_from(s, i + 1, 10 * acc + to_digit(s[i])[1])

parse_u32(s) ==
    IF s = <<>> THEN None
    ELSE IF s[1] = "+" THEN (IF Len(s) = 1 THEN None ELSE parse_u32_from(s, 2, 0))
    ELSE parse_u32_from(s, 1, 0)

DigitChar(d) == <<"0", "1", "2", "3", "4", "5", "6", "7", "8", "9">>[d + 1]

\* format!("{}", n) of an unsigned integer
RECURSIVE fmt_u32(_)
fmt_u32(n) == IF n < 10 THEN <<DigitChar(n)>> ELSE Append(fmt_u32(n \div 10), DigitChar(n % 10))

\* impl FromStr for Case: Ok as Some, Err(ParseCaseError) as None
CaseFromStr(s) ==
    LET cols == <<"a", "b", "c", "d", "e", "f", "g", "h">>
        lines == <<"1", "2", "3", "4", "5", "6", "7", "8">>
    IN  IF Len(s) # 2 THEN None
        ELSE IF ~\E c \in 1 .. 8 : cols[c] = s[1] THEN None
        ELSE IF ~\E l \in 1 .. 8 : lines[l] = s[2] THEN None
        ELSE Some(((CHOOSE c \in 1 .. 8 : cols[c] = s[1]) - 1)
                  + ((CHOOSE l \in 1 .. 8 : lines[l] = s[2]) - 1) * 8)

\* impl Display for Case
CaseToString(c) ==
    LET col_names == <<"a", "b", "c", "d", "e", "f", "g", "h">>
    IN  <<col_names[get_column(c) + 1]>> \o fmt_u32(get_line(c) + 1)

\* The result of a parser: Ok(v), Err or a panic
Ok(v) == [tag |-> "Ok", val |-> <<v>>]
Err == [tag |-> "Err", val |-> <<>>]
Panic == [tag |-> "Panic", val |-> <<>>]

\* Board::from_str, the loop over the characters of rank group l (0 the first)
\* from character i on, col the column reached, sq the squares so far
RECURSIVE parse_line_from(_, _, _, _, _)
parse_line_from(line, l, i, col, sq) ==
    IF i > Len(line) THEN Ok(sq)
    ELSE IF to_digit(line[i]) # None
         THEN parse_line_from(line, l, i + 1, col + to_digit(line[i])[1], sq)
         ELSE IF PieceFromStr(line[i]) = None THEN Err
         ELSE IF ~InBoard(col + 8 * (7 - l)) THEN Panic
         ELSE parse_line_from(line, l, i + 1, col + 1,
                              [sq EXCEPT ![col + 8 * (7 - l)] = PieceFromStr(line[i])])

\* Board::from_str, the loop over the rank groups from group l on
RECURSIVE parse_position_from(_, _, _)
parse_position_from(lines, l, sq) ==
    IF l >= Len(lines) THEN Ok(sq)
    ELSE LET next(r) == IF r.tag # "Ok" THEN r
                        ELSE parse_position_from(lines, l + 1, r.val[1])
         IN  next(parse_line_from(lines[l + 1], l, 1, 0, sq))

\* Board::from_str, the parse of the en passant field: Ok(option) as Some
EnPassantFromStr(s) ==
    LET wrap(case) == IF case = None THEN None ELSE Some(case)
    IN  IF s = <<"-">> THEN Some(None) ELSE wrap(CaseFromStr(s))

\* Board::from_str after the placement: the fields in the order they are parsed
BoardFromFields(squares, side, castle, en_passant, halfmove, moves) ==
    IF side \notin {<<"w">>, <<"b">>} THEN Err
    ELSE IF castle = None THEN Err
    ELSE IF en_passant = None THEN Err
    ELSE IF halfmove = None THEN Err
    ELSE IF moves = None THEN Err
    ELSE Ok([board |-> squares,
             side |-> IF side = <<"w">> THEN White ELSE Black,
             castle |-> castle[1],
             en_passant |-> en_passant[1],
             halfmove |-> halfmove[1],
             moves |-> moves[1]])

\* Board::from_str from the split text on
BoardFromSplit(split_fen) ==
    LET rest(position) ==
            IF position.tag # "Ok" THEN position
            ELSE BoardFromFields(position.val[1], split_fen[2],
                                 CastleFromStr(split_fen[3]),
                                 EnPassantFromStr(split_fen[4]),
                                 parse_u32(split_fen[5]), parse_u32(split_fen[6]))
    IN  IF Len(split_fen) # 6 THEN Err
        ELSE rest(parse_position_from(split(split_fen[1], "/"), 0, new_empty_board.board))

\* impl FromStr for Board
BoardFromStr(text) == BoardFromSplit(split(text, " "))

\* Result::unwrap of a parsed board
Unwrap(r) == IF r.tag = "Ok" THEN r.val[1] ELSE PanicBoard

\* Board::new_from_fen: fen.parse().unwrap()
new_from_fen(text) == Unwrap(BoardFromStr(text))

\* Board::to_fen, the squares of one line from column col on, n_empty the
\* run of empty squares so far
RECURSIVE to_fen_line_from(_, _, _, _)
to_fen_line_from(b, line, col, n_empty) ==
    IF col > 7
    THEN IF n_empty = 0 THEN <<"/">> ELSE Append(fmt_u32(n_empty), "/")
    ELSE IF b.board[col + 8 * line] # None
         THEN (IF n_empty # 0 THEN fmt_u32(n_empty) ELSE <<>>)
              \o <<PieceToString(b.board[col + 8 * line][1])>>
              \o to_fen_line_from(b, line, col + 1, 0)
         ELSE to_fen_line_from(b, line, col + 1, n_empty + 1)

\* Board::to_fen, the lines from line down to 0
RECURSIVE to_fen_lines_from(_, _)
to_fen_lines_from(b, line) ==
    IF line < 0 THEN <<>>
    ELSE to_fen_line_from(b, line, 0, 0) \o to_fen_lines_from(b, line - 1)

\* Board::to_fen
to_fen(b) ==
    LET pop(res) == SubSeq(res, 1, Len(res) - 1)
    IN  pop(to_fen_lines_from(b, 7))
        \o <<" ">> \o ColorToString(b.side) \o <<" ">> \o CastleToString(b.castle) \o <<" ">>
        \o (IF b.en_passant # None THEN CaseToString(b.en_passant[1]) ELSE <<"-">>)
        \o <<" ">> \o fmt_u32(b.halfmove) \o <<" ">> \o fmt_u32(b.moves)

-----------------------------------------------------------------------------
(* The FEN texts of the repository's tests *)

\* Board::new_board, tests::fen_load, perft scenario 1: rnbqkbnr/pppppppp/8/8/8/8/PPPPPPPP/RNBQKBNR w KQkq - 0 1
FenStart ==
    <<"r","n","b","q","k","b","n","r","/","p","p","p","p","p","p","p","p",
      "/","8","/","8","/","8","/","8","/","P","P","P","P","P","P","P","P",
      "/","R","N","B","Q","K","B","N","R"," ","w"," ","K","Q","k","q"," ",
      "-"," ","0"," ","1">>

\* tests::fen_load: rnbqkbnr/pppppppp/8/8/4P3/8/PPPP1PPP/RNBQKBNR b KQkq e3 0 1
FenLoad2 ==
    <<"r","n","b","q","k","b","n","r","/","p","p","p","p","p","p","p","p",
      "/","8","/","8","/","4","P","3","/","8","/","P","P","P","P","1","P",
      "P","P","/","R","N","B","Q","K","B","N","R"," ","b"," ","K","Q","k",
      "q"," ","e","3"," ","0"," ","1">>

\* tests::fen_load: rnbqkbnr/pp1ppppp/8/2p5/4P3/8/PPPP1PPP/RNBQKBNR w KQkq c6 0 2
FenLoad3 ==
    <<"r","n","b","q","k","b","n","r","/","p","p","1","p","p","p","p","p",
      "/","8","/","2","p","5","/","4","P","3","/","8","/","P","P","P","P",
      "1","P","P","P","/","R","N","B","Q","K","B","N","R"," ","w"," ","K",
      "Q","k","q"," ","c","6"," ","0"," ","2">>

\* tests::fen_load: rnbqkbnr/pp1ppppp/8/2p5/4P3/5N2/PPPP1PPP/RNBQKB1R b KQkq - 1 2
FenLoad4 ==
    <<"r","n","b","q","k","b","n","r","/","p","p","1","p","p","p","p","p",
      "/","8","/","2","p","5","/","4","P","3","/","5","N","2","/","P","P",
      "P","P","1","P","P","P","/","R","N","B","Q","K","B","1","R"," ","b",
      " ","K","Q","k","q"," ","-"," ","1"," ","2">>

\* tests::fen_load: r3r1k1/pp3nPp/1b1p1B2/1q1P1N2/8/P4Q2/1P3PK1/R6R b KQkq - 1 2
FenLoad5 ==
    <<"r","3","r","1","k","1","/","p","p","3","n","P","p","/","1","b","1",
      "p","1","B","2","/","1","q","1","P","1","N","2","/","8","/","P","4",
      "Q","2","/","1","P","3","P","K","1","/","R","6","R"," ","b"," ","K",
      "Q","k","q"," ","-"," ","1"," ","2">>

\* tests::test_mov_gen_2: r3k2r/p1ppqpb1/bn2pnp1/3PN3/1p2P3/2N2Q1p/PPPBBPPP/R3K2R w KQkq - 0 0
FenPerft2 ==
    <<"r","3","k","2","r","/","p","1","p","p","q","p","b","1","/","b","n",
      "2","p","n","p","1","/","3","P","N","3","/","1","p","2","P","3","/",
      "2","N","2","Q","1","p","/","P","P","P","B","B","P","P","P","/","R",
      "3","K","2","R"," ","w"," ","K","Q","k","q"," ","-"," ","0"," ","0">>

\* tests::test_mov_gen_3: 8/2p5/3p4/KP5r/1R3p1k/8/4P1P1/8 w - - 0 0
FenPerft3 ==
    <<"8","/","2","p","5","/","3","p","4","/","K","P","5","r","/","1","R",
      "3","p","1","k","/","8","/","4","P","1","P","1","/","8"," ","w"," ",
      "-"," ","-"," ","0"," ","0">>

\* tests::test_mov_gen_4: r3k2r/Pppp1ppp/1b3nbN/nP6/BBP1P3/q4N2/Pp1P2PP/R2Q1RK1 w kq - 0 1
FenPerft4 ==
    <<"r","3","k","2","r","/","P","p","p","p","1","p","p","p","/","1","b",
      "3","n","b","N","/","n","P","6","/","B","B","P","1","P","3","/","q",
      "4","N","2","/","P","p","1","P","2","P","P","/","R","2","Q","1","R",
      "K","1"," ","w"," ","k","q"," ","-"," ","0"," ","1">>

\* tests::test_mov_gen_4_mirror: r2q1rk1/pP1p2pp/Q4n2/bbp1p3/Np6/1B3NBn/pPPP1PPP/R3K2R b KQ - 0 1
FenPerft4Mirror ==
    <<"r","2","q","1","r","k","1","/","p","P","1","p","2","p","p","/","Q",
      "4","n","2","/","b","b","p","1","p","3","/","N","p","6","/","1","B",
      "3","N","B","n","/","p","P","P","P","1","P","P","P","/","R","3","K",
      "2","R"," ","b"," ","K","Q"," ","-"," ","0"," ","1">>

\* tests::test_mov_gen_5: rnbq1k1r/pp1Pbppp/2p5/8/2B5/8/PPP1NnPP/RNBQK2R w KQ - 1 8
FenPerft5 ==
    <<"r","n","b","q","1","k","1","r","/","p","p","1","P","b","p","p","p",
      "/","2","p","5","/","8","/","2","B","5","/","8","/","P","P","P","1",
      "N","n","P","P","/","R","N","B","Q","K","2","R"," ","w"," ","K","Q",
      " ","-"," ","1"," ","8">>

\* tests::test_mov_gen_6: r4rk1/1pp1qppp/p1np1n2/2b1p1B1/2B1P1b1/P1NP1N2/1PP1QPPP/R4RK1 w - - 0 10
FenPerft6 ==
    <<"r","4","r","k","1","/","1","p","p","1","q","p","p","p","/","p","1",
      "n","p","1","n","2","/","2","b","1","p","1","B","1","/","2","B","1",
      "P","1","b","1","/","P","1","N","P","1","N","2","/","1","P","P","1",
      "Q","P","P","P","/","R","4","R","K","1"," ","w"," ","-"," ","-"," ",
      "0"," ","1","0">>

\* tests::castle_under_attack: r3k2r/p1ppqpb1/bn2pnp1/3PN3/1p2P3/2N2Q2/PPPBBPpP/1R2K2R w Kkq - 0 2
FenCastleUnderAttack ==
    <<"r","3","k","2","r","/","p","1","p","p","q","p","b","1","/","b","n",
      "2","p","n","p","1","/","3","P","N","3","/","1","p","2","P","3","/",
      "2","N","2","Q","2","/","P","P","P","B","B","P","p","P","/","1","R",
      "2","K","2","R"," ","w"," ","K","k","q"," ","-"," ","0"," ","2">>

\* tests::test_move_creation_from_txt: 2p1k2r/p2P2P1/8/8/4Pp2/8/1P6/R3K3 w - e3 0 1
FenMoveTest ==
    <<"2","p","1","k","2","r","/","p","2","P","2","P","1","/","8","/","8",
      "/","4","P","p","2","/","8","/","1","P","6","/","R","3","K","3"," ",
      "w"," ","-"," ","e","3"," ","0"," ","1">>

ReferenceFens ==
    {FenStart, FenLoad2, FenLoad3, FenLoad4, FenLoad5, FenPerft2, FenPerft3,
     FenPerft4, FenPerft4Mirror, FenPerft5, FenPerft6, FenCastleUnderAttack}

-----------------------------------------------------------------------------
(* The inputs of the model *)

\* The six fields of a FEN text joined by single spaces
FenText(placement, side, castle, ep, halfmove, moves) ==
    placement \o <<" ">> \o side \o <<" ">> \o castle \o <<" ">> \o ep
    \o <<" ">> \o halfmove \o <<" ">> \o moves

\* The castling fields of canonical FEN: "-" and the 15 non-empty
\* subsequences of KQkq
CastleFields ==
    {<<"-">>}
    \cup {s \in UNION {[1 .. n -> {"K", "Q", "k", "q"}] : n \in 1 .. 4} :
            \A i \in 1 .. Len(s) - 1 :
                \E a, c \in 1 .. 4 : /\ a < c
                                     /\ <<"K", "Q", "k", "q">>[a] = s[i]
                                     /\ <<"K", "Q", "k", "q">>[c] = s[i + 1]}

\* Placements with both kings and all four rooks at home
PlaceRooks == <<"r","3","k","2","r","/","8","/","8","/","8","/","8","/","8","/","8","/","R","3","K","2","R">>
PlaceKings == <<"4","k","3","/","8","/","8","/","8","/","8","/","8","/","8","/","4","K","3">>

\* FEN texts with every castling field
CastleFens ==
    {FenText(p, s, c, <<"-">>, <<"0">>, <<"1">>) :
        p \in {PlaceRooks, PlaceKings}, s \in {<<"w">>, <<"b">>}, c \in CastleFields}

\* FEN texts Board::from_str rejects: five fields, an unknown piece glyph
BadFens ==
    {PlaceKings \o <<" ","w"," ","-"," ","-"," ","0">>,
     <<"4","k","3","/","8","/","8","/","8","/","8","/","8","/","8","/","4","X","3">> \o <<" ","w"," ","-"," ","-"," ","0"," ","1">>}

\* FEN texts whose placement field is not eight rank groups of eight squares,
\* and texts of seven fields and of one field
PlacementFens ==
    {\* a rank group of width 7
     FenText(<<"4","k","3","/","8","/","8","/","8","/","8","/","8","/","8","/","4","K","2">>, <<"w">>, <<"-">>, <<"-">>, <<"0">>, <<"1">>),
     \* a rank group of width 9
     FenText(<<"4","k","3","/","8","/","8","/","8","/","8","/","8","/","8","/","4","K","4">>, <<"w">>, <<"-">>, <<"-">>, <<"0">>, <<"1">>),
     \* the digit 0
     FenText(<<"4","k","3","/","8","/","8","/","8","/","8","/","8","/","8","/","4","K","0","3">>, <<"w">>, <<"-">>, <<"-">>, <<"0">>, <<"1">>),
     \* the digit 9 before a piece of the first group
     FenText(<<"9","k","/","8","/","8","/","8","/","8","/","8","/","8","/","4","K","3">>, <<"w">>, <<"-">>, <<"-">>, <<"0">>, <<"1">>),
     \* the digit 9 alone
     FenText(<<"4","k","3","/","9","/","8","/","8","/","8","/","8","/","8","/","4","K","3">>, <<"w">>, <<"-">>, <<"-">>, <<"0">>, <<"1">>),
     \* seven rank groups
     FenText(<<"4","k","3","/","8","/","8","/","8","/","8","/","8","/","4","K","3">>, <<"w">>, <<"-">>, <<"-">>, <<"0">>, <<"1">>),
     \* nine rank groups, the ninth empty of pieces
     FenText(<<"4","k","3","/","8","/","8","/","8","/","8","/","8","/","8","/","4","K","3","/","8">>, <<"w">>, <<"-">>, <<"-">>, <<"0">>, <<"1">>),
     \* nine rank groups, a piece in the ninth
     FenText(<<"4","k","3","/","8","/","8","/","8","/","8","/","8","/","8","/","4","K","3","/","7","P">>, <<"w">>, <<"-">>, <<"-">>, <<"0">>, <<"1">>),
     FenText(PlaceKings, <<"w">>, <<"-">>, <<"-">>, <<"0">>, <<"1">>) \o <<" ", "x">>,
     PlaceKings}

FenInputs == ReferenceFens \cup CastleFens \cup BadFens \cup PlacementFens

\* Positions the walk of the move tree starts from: test positions of the
\* repository and small positions with castling, en passant, knights and
\* pawns of both colors that push and promote
GameFens ==
    {FenStart, FenMoveTest, FenPerft3,
     FenText(<<"r","3","k","3","/","8","/","8","/","8","/","8","/","8","/","8","/","R","3","K","3">>, <<"w">>, <<"Q","q">>, <<"-">>, <<"0">>, <<"1">>),
     FenText(<<"4","k","2","r","/","8","/","8","/","8","/","8","/","8","/","8","/","4","K","2","R">>, <<"b">>, <<"K","k">>, <<"-">>, <<"3">>, <<"7">>),
     FenText(<<"4","k","3","/","8","/","8","/","8","/","4","P","p","2","/","8","/","3","P","4","/","4","K","3">>, <<"b">>, <<"-">>, <<"e","3">>, <<"0">>, <<"1">>),
     FenText(<<"4","k","3","/","8","/","8","/","3","n","4","/","8","/","2","N","5","/","8","/","4","K","3">>, <<"w">>, <<"-">>, <<"-">>, <<"4">>, <<"9">>),
     FenText(<<"4","k","2","r","/","8","/","6","N","1","/","8","/","8","/","8","/","8","/","4","K","3">>, <<"b">>, <<"k">>, <<"-">>, <<"0">>, <<"1">>),
     FenText(<<"4","k","3","/","p","7","/","8","/","8","/","8","/","8","/","1","p","4","P","1","/","4","K","3">>, <<"b">>, <<"-">>, <<"-">>, <<"0">>, <<"1">>)}

\* The depth of the walk of the move tree (the depth given to perft)
MaxPly == 2

-----------------------------------------------------------------------------
(* Spec: the walk perft makes of the move tree, one move a step *)

Init ==
    /\ pc = "play"
    /\ arg = None
    /\ fen \in GameFens
    /\ board = new_from_fen(fen)
    /\ out = <<>>
    /\ prev = None
    /\ mv = None
    /\ ply = 0

\* perft / sub_perft: board.get_moves() is called; it panics, or one of its
\* moves is applied
Walk(moves) ==
    \/ /\ Panicked(moves)
       /\ pc' = "panic"
       /\ UNCHANGED <<arg, fen, board, out, prev, mv, ply>>
    \/ /\ ~Panicked(moves)
       /\ \E i \in DOMAIN moves :
            /\ board' = apply_move(board, moves[i])
            /\ prev' = Some(board)
            /\ mv' = Some(moves[i])
       /\ pc' = IF board' = PanicBoard THEN "panic" ELSE pc
       /\ ply' = ply + 1
       /\ UNCHANGED <<arg, fen, out>>

Step ==
    /\ pc = "play"
    /\ ply < MaxPly
    /\ Walk(get_moves(board))

Next == Step

Spec == Init /\ [][Next]_vars

-----------------------------------------------------------------------------
(* SpecFen: a FEN text is parsed and the board is written back as FEN *)

InitFen ==
    /\ pc = "start"
    /\ arg = None
    /\ fen \in FenInputs
    /\ board = new_empty_board
    /\ out = <<>>
    /\ prev = None
    /\ mv = None
    /\ ply = 0

\* fen.parse::<Board>()
FromStr ==
    /\ pc = "start"
    /\ LET result(r) ==
                IF r.tag = "Ok"
                THEN pc' = "parsed" /\ board' = r.val[1]
                ELSE pc' = (IF r.tag = "Err" THEN "error" ELSE "panic") /\ board' = board
       IN  result(BoardFromStr(fen))
    /\ UNCHANGED <<arg, fen, out, prev, mv, ply>>

\* board.to_fen()
ToFen ==
    /\ pc = "parsed"
    /\ out' = to_fen(board)
    /\ pc' = "emitted"
    /\ UNCHANGED <<arg, fen, board, prev, mv, ply>>

NextFen == FromStr \/ ToFen

SpecFen == InitFen /\ [][NextFen]_vars

-----------------------------------------------------------------------------
(* moves.rs: the parser of UCI move text *)

\* impl FromStr for Move, on a text of ASCII characters: Ok(move), Err for
\* Err(MoveParseError), Panic when a slice s[0..2] or s[2..4] ends past the
\* end of the text
MoveFromStr(s) ==
    IF Len(s) < 2 THEN Panic
    ELSE IF CaseFromStr(SubSeq(s, 1, 2)) = None THEN Err
    ELSE IF Len(s) < 4 THEN Panic
    ELSE IF CaseFromStr(SubSeq(s, 3, 4)) = None THEN Err
    ELSE IF Len(s) = 5
         THEN CASE s[5] = "q" -> Ok(Move(CaseFromStr(SubSeq(s, 1, 2))[1],
                                         CaseFromStr(SubSeq(s, 3, 4))[1], "QueenPromotion"))
                [] s[5] = "n" -> Ok(Move(CaseFromStr(SubSeq(s, 1, 2))[1],
                                         CaseFromStr(SubSeq(s, 3, 4))[1], "KnightPromotion"))
                [] s[5] = "b" -> Ok(Move(CaseFromStr(SubSeq(s, 1, 2))[1],
                                         CaseFromStr(SubSeq(s, 3, 4))[1], "BishopPromotion"))
                [] s[5] = "r" -> Ok(Move(CaseFromStr(SubSeq(s, 1, 2))[1],
                                         CaseFromStr(SubSeq(s, 3, 4))[1], "RookPromotion"))
                [] OTHER -> Err
         ELSE Ok(Move(CaseFromStr(SubSeq(s, 1, 2))[1],
                      CaseFromStr(SubSeq(s, 3, 4))[1], "Quiet"))

\* Move::is_capture_on_board
is_capture_on_board(m, b) == b.board[m.to] # None

\* Move::is_promotion_on_board
is_promotion_on_board(m, b) ==
    IF b.board[m.from] = None THEN FALSE
    ELSE IF b.board[m.from][1].kind = "Pawn"
         THEN get_line(m.to) = 0 \/ get_line(m.to) = 7
         ELSE FALSE

\* Move::is_queen_rock_on_board
is_queen_rock_on_board(m, b) ==
    IF b.board[m.from] # None /\ b.board[m.from][1].kind = "King"
    THEN \/ <<get_line(m.from), get_column(m.from), get_line(m.to), get_column(m.to)>>
                = <<0, 4, 0, 2>>
         \/ <<get_line(m.from), get_column(m.from), get_line(m.to), get_column(m.to)>>
                = <<7, 4, 7, 2>>
    ELSE FALSE

\* Move::is_king_rock_on_board
is_king_rock_on_board(m, b) ==
    IF b.board[m.from] # None /\ b.board[m.from][1].kind = "King"
    THEN \/ <<get_line(m.from), get_column(m.from), get_line(m.to), get_column(m.to)>>
                = <<0, 4, 0, 6>>
         \/ <<get_line(m.from), get_column(m.from), get_line(m.to), get_column(m.to)>>
                = <<7, 4, 7, 6>>
    ELSE FALSE

\* Move::is_en_passant_on_board
is_en_passant_on_board(m, b) ==
    IF b.board[m.from] # None /\ b.board[m.from][1].kind = "Pawn"
    THEN b.en_passant # None /\ b.en_passant[1] = m.to
    ELSE FALSE

\* Move::is_double_pawn_on_board
is_double_pawn_on_board(m, b) ==
    IF b.board[m.from] # None /\ b.board[m.from][1].kind = "Pawn"
    THEN \/ <<get_line(m.from), get_line(m.to)>> = <<1, 3>>
         \/ <<get_line(m.from), get_line(m.to)>> = <<6, 4>>
    ELSE FALSE

\* Move::get_kind_on_board
get_kind_on_board(m, b) ==
    IF is_promotion_on_board(m, b)
    THEN IF is_capture_on_board(m, b)
         THEN CASE get_kind(m) = "QueenPromotion" -> "QueenCapturePromotion"
                [] get_kind(m) = "RookPromotion" -> "RookCapturePromotion"
                [] get_kind(m) = "KnightPromotion" -> "KnightCapturePromotion"
                [] get_kind(m) = "BishopPromotion" -> "BishopCapturePromotion"
                [] OTHER -> "Quiet"
         ELSE get_kind(m)
    ELSE IF is_capture_on_board(m, b) THEN "SimpleCapture"
    ELSE IF is_en_passant_on_board(m, b) THEN "EnPassantCapture"
    ELSE IF is_king_rock_on_board(m, b) THEN "KingCastle"
    ELSE IF is_queen_rock_on_board(m, b) THEN "QueenCastle"
    ELSE IF is_double_pawn_on_board(m, b) THEN "DoublePawnPush"
    ELSE "Quiet"

\* Move::set_kind
set_kind(m, kind) == [m EXCEPT !.flags = MoveFlagsFrom(kind)]

\* Move::new_on_board: str.parse().unwrap(), then the kind read off the
\* board; PanicMove when the unwrap panics
new_on_board(str, b) ==
    LET body(r) == IF r.tag # "Ok" THEN PanicMove
                   ELSE set_kind(r.val[1], get_kind_on_board(r.val[1], b))
    IN  body(MoveFromStr(str))

-----------------------------------------------------------------------------
(* SpecFn: one function of the engine is called on one argument *)

\* The largest distance given to get_neighbour
MaxDistance == 7

\* The largest length of a move text
MaxText == 6

\* The arguments of Case::get_neighbour
NeighbourArgs == [case : Cases, dir : Dir, distance : 1 .. MaxDistance]

\* Move texts: every text of at most MaxText characters over a file letter, a
\* rank digit, a promotion letter and a character that is none of them, and
\* the moves of tests::test_move_creation_from_txt
MoveTexts ==
    UNION {[1 .. n -> {"e", "7", "q", "x"}] : n \in 0 .. MaxText}
    \cup {<<"f","4","f","3">>, <<"b","2","b","4">>, <<"a","7","a","5">>,
          <<"e","8","g","8">>, <<"e","1","c","1">>, <<"a","1","a","7">>,
          <<"f","4","e","3">>, <<"g","7","g","8","n">>, <<"g","7","g","8","b">>,
          <<"g","7","g","8","r">>, <<"g","7","g","8","q">>, <<"d","7","c","8","n">>,
          <<"d","7","c","8","b">>, <<"d","7","c","8","r">>, <<"d","7","c","8","q">>}

\* The boards and depths the tests of move_generation.rs give perft
PerftArgs ==
    [fen : {FenStart}, depth : {1, 2, 3}]
    \cup [fen : {FenPerft3, FenPerft4, FenPerft4Mirror}, depth : {1, 2}]
    \cup [fen : {FenCastleUnderAttack}, depth : {1}]

InitFn ==
    /\ \/ pc = "case" /\ arg \in {Some(a) : a \in NeighbourArgs}
       \/ pc = "text" /\ arg \in {Some(t) : t \in MoveTexts}
       \/ pc = "perft" /\ arg \in {Some(a) : a \in PerftArgs}
    /\ fen = <<>>
    /\ board = new_empty_board
    /\ out = <<>>
    /\ prev = None
    /\ mv = None
    /\ ply = 0

\* case.get_neighbour(dir, distance)
Neighbour ==
    /\ pc = "case"
    /\ out' = get_neighbour(arg[1].case, arg[1].dir, arg[1].distance)
    /\ pc' = "neighbour"
    /\ UNCHANGED <<arg, fen, board, prev, mv, ply>>

\* text.parse::<Move>()
ParseMove ==
    /\ pc = "text"
    /\ out' = MoveFromStr(arg[1])
    /\ pc' = "move"
    /\ UNCHANGED <<arg, fen, board, prev, mv, ply>>

\* perft(&Board::new_from_fen(fen), depth)
Perft ==
    /\ pc = "perft"
    /\ out' = perft(new_from_fen(arg[1].fen), arg[1].depth)
    /\ pc' = "counted"
    /\ UNCHANGED <<arg, fen, board, prev, mv, ply>>

NextFn == Neighbour \/ ParseMove \/ Perft

SpecFn == InitFn /\ [][NextFn]_vars

-----------------------------------------------------------------------------
(* Properties of the FEN codec, over SpecFen *)

\* The castling field FEN prescribes for the rights: "-" when none is set,
\* else the letters of the set rights in the order K, Q, k, q
CanonicalCastle(castle) ==
    IF ~(castle.white_king \/ castle.white_queen \/ castle.black_king \/ castle.black_queen)
    THEN <<"-">>
    ELSE (IF castle.white_king THEN <<"K">> ELSE <<>>)
         \o (IF castle.white_queen THEN <<"Q">> ELSE <<>>)
         \o (IF castle.black_king THEN <<"k">> ELSE <<>>)
         \o (IF castle.black_queen THEN <<"q">> ELSE <<>>)

\* C1: every FEN text of the reference set (the start position, the fen_load
\* strings, the perft scenarios) that was parsed and written back comes out
\* character for character as it went in
C1_FenRoundTrip ==
    (pc = "emitted" /\ fen \in ReferenceFens) => out = fen

\* C2: the castling field of the emitted FEN is "-" exactly when no right of
\* the board is set, and otherwise the letters of exactly the set rights in
\* the order K, Q, k, q, for each of the 16 combinations of rights
C2_CastleField ==
    pc = "emitted" => split(out, " ")[3] = CanonicalCastle(board.castle)

-----------------------------------------------------------------------------
(* Properties of apply_move on the moves get_moves returns, over Spec *)

\* A move of get_moves(prev) was applied to prev and gave board
Applied == pc = "play" /\ mv # None /\ prev # None

Before == prev[1]

LastMove == mv[1]

\* The piece the last move moved
Mover == Before.board[LastMove.from]

\* The number of occupied squares of a board
Occupied(b) == Cardinality({i \in Cases : b.board[i] # None})

\* The number of squares of a board a piece of the color stands on
OccupiedBy(b, color) ==
    Cardinality({i \in Cases : b.board[i] # None /\ b.board[i][1].color = color})

\* The corner squares
A1 == CaseFromStr(<<"a", "1">>)[1]
H1 == CaseFromStr(<<"h", "1">>)[1]
A8 == CaseFromStr(<<"a", "8">>)[1]
H8 == CaseFromStr(<<"h", "8">>)[1]

\* C3: after a move, en_passant is set if and only if the move is a
\* DoublePawnPush, and is then the square between from and to; after a move
\* of any other kind it is empty, even if it was set before
C3_EnPassantBookkeeping ==
    Applied =>
        IF get_kind(LastMove) = "DoublePawnPush"
        THEN board.en_passant = Some((LastMove.from + LastMove.to) \div 2)
        ELSE board.en_passant = None

\* C4: after a king moved, both castling rights of its color are false; after
\* a rook left a1, h1, a8 or h8, the right tied to that corner is false
C4_RightsDropOnOwnMove ==
    (Applied /\ Mover # None) =>
        /\ (Mover[1].kind = "King" /\ Mover[1].color = White)
                => (~board.castle.white_king /\ ~board.castle.white_queen)
        /\ (Mover[1].kind = "King" /\ Mover[1].color = Black)
                => (~board.castle.black_king /\ ~board.castle.black_queen)
        /\ (Mover[1].kind = "Rook" /\ LastMove.from = A1) => ~board.castle.white_queen
        /\ (Mover[1].kind = "Rook" /\ LastMove.from = H1) => ~board.castle.white_king
        /\ (Mover[1].kind = "Rook" /\ LastMove.from = A8) => ~board.castle.black_queen
        /\ (Mover[1].kind = "Rook" /\ LastMove.from = H8) => ~board.castle.black_king

\* C5: after a capture on a1, h1, a8 or h8, the castling right of the mover's
\* opponent tied to that corner is false
C5_RightsDropOnCornerCapture ==
    (Applied /\ is_capture(LastMove)) =>
        /\ (Before.side = Black /\ LastMove.to = A1) => ~board.castle.white_queen
        /\ (Before.side = Black /\ LastMove.to = H1) => ~board.castle.white_king
        /\ (Before.side = White /\ LastMove.to = A8) => ~board.castle.black_queen
        /\ (Before.side = White /\ LastMove.to = H8) => ~board.castle.black_king

\* C6: a castling right that is false in a board is false in the board every
\* move gives from it; no right goes from false to true
C6_RightsMonotone ==
    Applied =>
        /\ ~Before.castle.white_king => ~board.castle.white_king
        /\ ~Before.castle.white_queen => ~board.castle.white_queen
        /\ ~Before.castle.black_king => ~board.castle.black_king
        /\ ~Before.castle.black_queen => ~board.castle.black_queen

\* A move was applied to a board that had lost some right and kept another
C6_Witness ==
    /\ Applied
    /\ ply = MaxPly
    /\ \E r \in DOMAIN Before.castle : ~Before.castle[r] /\ ~board.castle[r]
    /\ \E r \in DOMAIN Before.castle : Before.castle[r]

\* C7: after a move the halfmove clock is 0 if and only if the move is a
\* capture or the moving piece is a pawn; otherwise it is the clock before
\* the move plus 1
C7_HalfmoveRule ==
    (Applied /\ Mover # None) =>
        IF is_capture(LastMove) \/ Mover[1].kind = "Pawn"
        THEN board.halfmove = 0
        ELSE board.halfmove = Before.halfmove + 1 /\ board.halfmove # 0

\* C8: after a move the other side is to move, and the fullmove number is one
\* more than before when Black moved and the same as before when White moved
C8_SideAndFullmove ==
    Applied =>
        /\ Before.side = White => (board.side = Black /\ board.moves = Before.moves)
        /\ Before.side = Black => (board.side = White /\ board.moves = Before.moves + 1)

\* White moved and then Black moved: the fullmove number went up once
C8_Witness ==
    /\ Applied
    /\ ply = MaxPly
    /\ Before.side = Black
    /\ board.side = White
    /\ board.moves = Before.moves + 1
    /\ board.moves = new_from_fen(fen).moves + 1

\* C9: a move of get_moves that is no capture (quiet, double push, castle,
\* non-capturing promotion) leaves the number of occupied squares as it was
C9_NonCapturePreservesCount ==
    (Applied /\ ~is_capture(LastMove)) => Occupied(board) = Occupied(Before)

\* A castle was applied: two pieces moved and none was lost
C9_Witness ==
    /\ Applied
    /\ get_kind(LastMove) \in {"KingCastle", "QueenCastle"}
    /\ Mover # None
    /\ Occupied(board) = Occupied(Before)

\* C10: a capture of get_moves removes exactly one piece, and the removed
\* piece belongs to the opponent of the mover
C10_CaptureRemovesOneOpponent ==
    (Applied /\ is_capture(LastMove)) =>
        /\ Occupied(board) = Occupied(Before) - 1
        /\ OccupiedBy(board, Before.side) = OccupiedBy(Before, Before.side)
        /\ OccupiedBy(board, ApplySide(Before)) = OccupiedBy(Before, ApplySide(Before)) - 1

-----------------------------------------------------------------------------
(* Properties of the move generator, over Spec *)

Abs(n) == IF n < 0 THEN 0 - n ELSE n

Sign(n) == IF n < 0 THEN 0 - 1 ELSE IF n > 0 THEN 1 ELSE 0

\* The squares strictly between two squares of one line, column or diagonal
Between(from, to) ==
    LET dl == get_line(to) - get_line(from)
        dc == get_column(to) - get_column(from)
        n == IF Abs(dl) > Abs(dc) THEN Abs(dl) ELSE Abs(dc)
    IN  {from + k * (8 * Sign(dl) + Sign(dc)) : k \in 1 .. n - 1}

\* The attack relation of chess: the piece p standing on from attacks to on
\* the squares sq (sliders along unobstructed rays, knights on the eight
\* (1,2)/(2,1) offsets, the king on adjacent squares, pawns on their two
\* forward diagonals)
ChessAttacks(sq, p, from, to) ==
    LET dl == get_line(to) - get_line(from)
        dc == get_column(to) - get_column(from)
        straight == (dl = 0) # (dc = 0)
        diagonal == Abs(dl) = Abs(dc) /\ dl # 0
        clear == \A i \in Between(from, to) : sq[i] = None
    IN  CASE p.kind = "Knight" -> {Abs(dl), Abs(dc)} = {1, 2}
          [] p.kind = "King" -> from # to /\ Abs(dl) <= 1 /\ Abs(dc) <= 1
          [] p.kind = "Pawn" -> Abs(dc) = 1 /\ dl = (IF p.color = White THEN 1 ELSE 0 - 1)
          [] p.kind = "Rook" -> straight /\ clear
          [] p.kind = "Bishop" -> diagonal /\ clear
          [] p.kind = "Queen" -> (straight \/ diagonal) /\ clear

\* Some piece of color attacks the square to on the squares sq
ChessAttacked(sq, color, to) ==
    \E from \in Cases : /\ sq[from] # None
                        /\ sq[from][1].color = color
                        /\ ChessAttacks(sq, sq[from][1], from, to)

\* No king of color on the board b is attacked by the other color
KingSafe(b, color) ==
    \A k \in Cases :
        (b.board[k] # None /\ b.board[k][1] = Piece("King", color))
            => ~ChessAttacked(b.board, ApplySide([side |-> color]), k)

\* The list holds the move
Holds(list, m) == \E j \in DOMAIN list : list[j] = m

\* C11: a pseudo-legal move of the board is in get_moves if and only if,
\* once it is applied, the king of the mover is not attacked by the opponent
\* under the attack relation of chess
C11_LegalityFilter ==
    pc = "play" =>
        LET filtered(pseudo, legal) ==
                (~Panicked(pseudo) /\ ~Panicked(legal)) =>
                    \A i \in DOMAIN pseudo :
                        Holds(legal, pseudo[i])
                            <=> KingSafe(apply_move(board, pseudo[i]), board.side)
        IN  filtered(pseudo_moves_in(board, 0, 63), get_moves(board))

\* The castling right of the side to move that a castle move of b uses
CastleRight(b, m) ==
    IF get_kind(m) = "KingCastle"
    THEN (IF b.side = White THEN b.castle.white_king ELSE b.castle.black_king)
    ELSE (IF b.side = White THEN b.castle.white_queen ELSE b.castle.black_queen)

\* The squares between king and rook of a castle move: f, g or d, c, b
CastleBetween(m) ==
    IF get_kind(m) = "KingCastle" THEN {m.from + 1, m.from + 2}
    ELSE {m.from - 1, m.from - 2, m.from - 3}

\* The origin, transit and destination squares of the king of a castle move
CastleKingPath(m) == {m.from, (m.from + m.to) \div 2, m.to}

\* C12: every KingCastle or QueenCastle of get_moves has its castling right
\* set, the squares between king and rook empty, and the origin, transit and
\* destination squares of the king not attacked by the opponent, a pawn
\* attacking both forward diagonals whether or not they are empty
C12_CastlingPreconditions ==
    pc = "play" =>
        LET allowed(legal) ==
                ~Panicked(legal) =>
                    \A i \in DOMAIN legal :
                        get_kind(legal[i]) \in {"KingCastle", "QueenCastle"} =>
                            /\ CastleRight(board, legal[i])
                            /\ \A c \in CastleBetween(legal[i]) : board.board[c] = None
                            /\ \A c \in CastleKingPath(legal[i]) :
                                    ~ChessAttacked(board.board, ApplySide(board), c)
        IN  allowed(get_moves(board))

\* The squares of b a king of the color stands on
Kings(b, color) ==
    {i \in Cases : b.board[i] # None /\ b.board[i][1] = Piece("King", color)}

\* The board has exactly one king of each color
OneKingEach(b) ==
    Cardinality(Kings(b, White)) = 1 /\ Cardinality(Kings(b, Black)) = 1

\* C13: from a board with exactly one king of each color, every board reached
\* by moves of get_moves applied with apply_move has exactly one white king
\* and exactly one black king
C13_KingPresence ==
    (pc = "play" /\ OneKingEach(new_from_fen(fen))) => OneKingEach(board)

\* C14: in every board apply_move gives, en_passant, when set, is on line 2
\* (rank 3) if Black is to move and on line 5 (rank 6) if White is to move
C14_EnPassantRank ==
    (Applied /\ board.en_passant # None) =>
        /\ board.side = Black => get_line(board.en_passant[1]) = 2
        /\ board.side = White => get_line(board.en_passant[1]) = 5

-----------------------------------------------------------------------------
(* Properties of single calls, over SpecFn *)

\* perft was called on the board of the FEN text at the depth and returned
Counted(text, depth) ==
    pc = "counted" /\ arg[1].fen = text /\ arg[1].depth = depth

\* C15: from the start position the move tree has 20 leaves at depth 1, 400
\* at depth 2 and 8902 at depth 3, and no get_moves or apply_move on the way
\* aborts
C15_PerftStart ==
    /\ Counted(FenStart, 1) => out = Some(20)
    /\ Counted(FenStart, 2) => out = Some(400)
    /\ Counted(FenStart, 3) => out = Some(8902)

\* C16: on the castle_under_attack position get_moves returns exactly 44
\* moves and none of them is a KingCastle
C16_CastleUnderAttack ==
    Counted(FenCastleUnderAttack, 1) =>
        LET no_king_castle(moves) ==
                /\ ~Panicked(moves)
                /\ \A i \in DOMAIN moves : get_kind(moves[i]) # "KingCastle"
        IN  /\ out = Some(44)
            /\ no_king_castle(get_moves(new_from_fen(FenCastleUnderAttack)))

\* The square of the same column on the line mirrored top to bottom
MirrorCase(i) == 8 * (7 - get_line(i)) + get_column(i)

\* The mirror of a board: lines reversed, piece colors, side to move and
\* castling rights swapped
Mirror(b) ==
    [board |-> [i \in Cases |->
                    IF b.board[MirrorCase(i)] = None THEN None
                    ELSE Some(Piece(b.board[MirrorCase(i)][1].kind,
                                    ApplySide([side |-> b.board[MirrorCase(i)][1].color])))],
     side |-> ApplySide(b),
     castle |-> Castle(b.castle.black_king, b.castle.black_queen,
                       b.castle.white_king, b.castle.white_queen),
     en_passant |-> IF b.en_passant = None THEN None
                    ELSE Some(MirrorCase(b.en_passant[1])),
     halfmove |-> b.halfmove,
     moves |-> b.moves]

\* C17: a board and its mirror have move trees with the same number of
\* leaves; the test_mov_gen_4 position and its mirror both give 6 at depth 1
\* and 264 at depth 2
C17_ColorSymmetry ==
    /\ Counted(FenPerft4, 1) => out = Some(6)
    /\ Counted(FenPerft4Mirror, 1) => out = Some(6)
    /\ Counted(FenPerft4, 2) => out = Some(264)
    /\ Counted(FenPerft4Mirror, 2) => out = Some(264)
    /\ pc = "counted" =>
            out = perft(Mirror(new_from_fen(arg[1].fen)), arg[1].depth)

\* The eight sliding directions and the step each makes in line and column
SlidingDirs ==
    {"Up", "UpRight", "Right", "DownRight", "Down", "DownLeft", "Left", "UpLeft"}

DLine(dir) ==
    IF dir \in {"Up", "UpRight", "UpLeft"} THEN 1
    ELSE IF dir \in {"Down", "DownRight", "DownLeft"} THEN -1 ELSE 0

DColumn(dir) ==
    IF dir \in {"Right", "UpRight", "DownRight"} THEN 1
    ELSE IF dir \in {"Left", "UpLeft", "DownLeft"} THEN -1 ELSE 0

\* A call of get_neighbour has returned
Neighboured == pc = "neighbour"

\* C18: for every square, sliding direction and distance, get_neighbour
\* returns a square exactly when the line and the column that far away are
\* both on the board, and then the square of exactly that line and column
C18_SlidingBounds ==
    Neighboured /\ arg[1].dir \in SlidingDirs =>
        LET line == get_line(arg[1].case) + arg[1].distance * DLine(arg[1].dir)
            column == get_column(arg[1].case) + arg[1].distance * DColumn(arg[1].dir)
        IN  IF line \in 0 .. 7 /\ column \in 0 .. 7
            THEN out = Some(8 * line + column)
            ELSE out = None

\* A slide of seven squares from h8 reaches a1
C18_Witness ==
    /\ Neighboured
    /\ arg[1] = [case |-> H8, dir |-> "DownLeft", distance |-> 7]
    /\ out = Some(A1)

\* The squares a knight on s reaches in chess: one line and two columns, or
\* two lines and one column, away and on the board
KnightTargets(s) ==
    {8 * l + c : <<l, c>> \in
        {t \in (0 .. 7) \X (0 .. 7) :
            \/ Abs(t[1] - get_line(s)) = 1 /\ Abs(t[2] - get_column(s)) = 2
            \/ Abs(t[1] - get_line(s)) = 2 /\ Abs(t[2] - get_column(s)) = 1}}

\* The squares get_neighbour returns for s over the eight knight directions
KnightNeighbours(s) ==
    {get_neighbour(s, KnightDirs[i], 1)[1] :
        i \in {j \in DOMAIN KnightDirs : get_neighbour(s, KnightDirs[j], 1) # None}}

\* C19: over the eight knight directions get_neighbour returns exactly the
\* on-board squares a knight reaches, never an index outside 0..63 (an
\* underflow shows as an index below 0)
C19_KnightOffsets ==
    Neighboured /\ arg[1].distance = 1
                /\ arg[1].dir \in {KnightDirs[i] : i \in DOMAIN KnightDirs} =>
        /\ out # None => out[1] \in Cases
        /\ out # None => out[1] \in KnightTargets(arg[1].case)
        /\ KnightNeighbours(arg[1].case) = KnightTargets(arg[1].case)

\* A call of text.parse::<Move>() has ended
Parsed == pc = "move"

\* A move text of UCI: two squares, and after them at most one of the
\* promotion letters
WellFormedMove(s) ==
    /\ Len(s) \in {4, 5}
    /\ CaseFromStr(SubSeq(s, 1, 2)) # None
    /\ CaseFromStr(SubSeq(s, 3, 4)) # None
    /\ Len(s) = 5 => s[5] \in {"q", "r", "b", "n"}

\* C20: parsing a move text returns the error, as a value, whenever the text
\* is not 4 or 5 characters long or its 5th character is no promotion
\* letter, and returns a move only for a well-formed text
C20_MoveTextErrors ==
    Parsed =>
        /\ Len(arg[1]) \notin {4, 5} => out = Err
        /\ Len(arg[1]) = 5 /\ arg[1][5] \notin {"q", "r", "b", "n"} => out = Err
        /\ out.tag = "Ok" => WellFormedMove(arg[1])

-----------------------------------------------------------------------------
(* Properties of the FEN parser's errors, over SpecFen *)

\* The squares a rank group stands for: a digit counts its value, any other
\* character one square
RECURSIVE GroupWidth(_)
GroupWidth(g) ==
    IF g = <<>> THEN 0
    ELSE (IF to_digit(Head(g)) = None THEN 1 ELSE to_digit(Head(g))[1])
         + GroupWidth(Tail(g))

\* A placement field of FEN: eight rank groups, each of eight squares, with
\* no digit outside 1..8
WellPlaced(placement) ==
    /\ Len(split(placement, "/")) = 8
    /\ \A g \in {split(placement, "/")[i] : i \in 1 .. Len(split(placement, "/"))} :
            /\ GroupWidth(g) = 8
            /\ \A i \in DOMAIN g : g[i] \notin {"0", "9"}

\* The parse of the FEN text has ended
FenParsed == pc \in {"parsed", "emitted", "error", "panic"}

\* C21: a FEN text without exactly six fields, or whose placement is not
\* eight rank groups of eight squares with digits 1..8, is answered with the
\* parse error: the parser neither aborts nor returns a board
C21_FenPlacementErrors ==
    FenParsed /\ (Len(split(fen, " ")) # 6 \/ ~WellPlaced(split(fen, " ")[1])) =>
        pc = "error"

-----------------------------------------------------------------------------
(* Further properties of the move generator, over Spec *)

\* C22: get_moves returns a list and never aborts on a board the FEN parser
\* has returned (the walk stops in "panic" before its first move exactly
\* when get_moves aborted on the parsed board)
C22_GeneratorTotal == ply = 0 => pc # "panic"

\* The UCI text of a move: its two squares, and the letter of the piece a
\* promotion makes
PromotionLetter(kind) ==
    CASE kind \in {"QueenPromotion", "QueenCapturePromotion"} -> <<"q">>
      [] kind \in {"RookPromotion", "RookCapturePromotion"} -> <<"r">>
      [] kind \in {"BishopPromotion", "BishopCapturePromotion"} -> <<"b">>
      [] kind \in {"KnightPromotion", "KnightCapturePromotion"} -> <<"n">>
      [] OTHER -> <<>>

Uci(m) == CaseToString(m.from) \o CaseToString(m.to) \o PromotionLetter(get_kind(m))

\* The moves of the list that new_on_board does not give back from their
\* UCI text
Misread(b, moves) ==
    {i \in DOMAIN moves : new_on_board(Uci(moves[i]), b) # moves[i]}

\* C23: on every board of the walk, each move of get_moves is given back,
\* with the same from, to and kind, by new_on_board from its UCI text
C23_KindInference ==
    pc = "play" =>
        LET agree(moves) == Panicked(moves) \/ Misread(board, moves) = {}
        IN  agree(get_moves(board))

-----------------------------------------------------------------------------
(* Properties of apply_move on castles and en passant captures, over Spec *)

IsKind(b, case, kind) == b.board[case] # None /\ b.board[case][1].kind = kind

E1 == CaseFromStr(<<"e", "1">>)[1]
E8 == CaseFromStr(<<"e", "8">>)[1]

\* The last move was a castle of the given kind from e1 or e8 to the square
\* two columns towards the rook's corner, with a king on e and a rook in
\* the corner before it
Castled(kind, step, corner) ==
    /\ Applied
    /\ get_kind(LastMove) = kind
    /\ LastMove.from \in {E1, E8}
    /\ LastMove.to = LastMove.from + 2 * step
    /\ IsKind(Before, LastMove.from, "King")
    /\ IsKind(Before, LastMove.from + corner, "Rook")

\* The squares after a castle: the king on to, the rook on the square the
\* king crossed, their old squares empty, every other square as before
CastledSquares(step, corner) ==
    [i \in Cases |->
        IF i = LastMove.to THEN Before.board[LastMove.from]
        ELSE IF i = LastMove.from + step THEN Before.board[LastMove.from + corner]
        ELSE IF i \in {LastMove.from, LastMove.from + corner} THEN None
        ELSE Before.board[i]]

\* C24: a KingCastle leaves the king on g, the rook of h on f, e and h
\* empty; a QueenCastle leaves the king on c, the rook of a on d, a and e
\* empty; every other square is unchanged
C24_CastleApplication ==
    /\ Castled("KingCastle", 1, 3) => board.board = CastledSquares(1, 3)
    /\ Castled("QueenCastle", -1, -4) => board.board = CastledSquares(-1, -4)

\* Black has castled king side: king on g8, rook on f8
C24_Witness ==
    /\ Castled("KingCastle", 1, 3)
    /\ LastMove.from = E8
    /\ IsKind(board, E8 + 2, "King")
    /\ IsKind(board, E8 + 1, "Rook")
    /\ board.board[E8] = None /\ board.board[H8] = None

\* The last move was an EnPassantCapture by a pawn of the given color
EnPassantBy(color) ==
    /\ Applied
    /\ get_kind(LastMove) = "EnPassantCapture"
    /\ Mover = Some(Piece("Pawn", color))

\* The squares after an en passant capture that takes the pawn on taken
EnPassantSquares(taken) ==
    [i \in Cases |->
        IF i = LastMove.to THEN Before.board[LastMove.from]
        ELSE IF i \in {LastMove.from, taken} THEN None
        ELSE Before.board[i]]

\* C25: an EnPassantCapture moves the pawn to its target and empties the
\* square behind the target as the mover sees it (to-8 for White, to+8 for
\* Black), changes no other square and sets the halfmove clock to 0
C25_EnPassantApplication ==
    /\ EnPassantBy(White) =>
            board.board = EnPassantSquares(LastMove.to - 8) /\ board.halfmove = 0
    /\ EnPassantBy(Black) =>
            board.board = EnPassantSquares(LastMove.to + 8) /\ board.halfmove = 0

-----------------------------------------------------------------------------
(* Properties of the generated moves, over Spec *)

\* The squares holding a pawn of the side to move
OwnPawns(b) == {c \in Cases : b.board[c] = Some(Piece("Pawn", b.side))}

\* The line a pawn of the side to move starts on, the line it promotes on and
\* the index step of its push
StartLine(b) == IF b.side = White THEN 1 ELSE 6
LastLine(b) == IF b.side = White THEN 7 ELSE 0
Forward(b) == IF b.side = White THEN 8 ELSE -8

\* The pushes chess gives the pawn on case: one step when the square in
\* front is empty, as the four promotions on the last line and as Quiet
\* elsewhere; two steps from the starting line when both squares are empty
Pushes(b, case) ==
    IF b.board[case + Forward(b)] # None THEN {}
    ELSE (IF get_line(case + Forward(b)) = LastLine(b)
          THEN {Move(case, case + Forward(b), k) :
                    k \in {"QueenPromotion", "RookPromotion",
                           "BishopPromotion", "KnightPromotion"}}
          ELSE {Move(case, case + Forward(b), "Quiet")})
         \cup (IF get_line(case) = StartLine(b)
                  /\ b.board[case + 2 * Forward(b)] = None
               THEN {Move(case, case + 2 * Forward(b), "DoublePawnPush")}
               ELSE {})

\* The entries of a list of moves, and whether it has an entry twice
Entries(list) == {list[i] : i \in DOMAIN list}
Repeats(list) == \E i, j \in DOMAIN list : i < j /\ list[i] = list[j]

\* C26: for every pawn of the side to move pawn_quiet_moves gives exactly the
\* pushes: the one-step push iff the square in front is empty (Quiet, or the
\* four promotions on the last line), the DoublePawnPush iff the pawn is on
\* its starting line and both squares are empty
C26_PawnPushes ==
    pc = "play" =>
        \A case \in OwnPawns(board) :
            /\ InBoard(case + Forward(board))
            /\ Entries(pawn_quiet_moves(board, case)) = Pushes(board, case)
            /\ ~Repeats(pawn_quiet_moves(board, case))

\* A board with a pawn that promotes by a push, a pawn that pushes two steps
\* and a pawn that is blocked
C26_Witness ==
    /\ pc = "play"
    /\ \E case \in OwnPawns(board) :
            Move(case, case + Forward(board), "KnightPromotion")
                \in Entries(pawn_quiet_moves(board, case))
    /\ \E case \in OwnPawns(board) :
            Move(case, case + 2 * Forward(board), "DoublePawnPush")
                \in Entries(pawn_quiet_moves(board, case))
    /\ \E case \in OwnPawns(board) : pawn_quiet_moves(board, case) = <<>>

\* The corner the rook of a castle starts in
CastleCorner(m) ==
    IF get_kind(m) = "KingCastle" THEN m.from + 3 ELSE m.from - 4

\* The castles of the list whose king is not on e1 (e8) or whose rook is not
\* in its corner
Unfounded(b, moves) ==
    {i \in DOMAIN moves :
        /\ get_kind(moves[i]) \in {"KingCastle", "QueenCastle"}
        /\ ~ /\ moves[i].from = (IF b.side = White THEN E1 ELSE E8)
             /\ b.board[moves[i].from] = Some(Piece("King", b.side))
             /\ b.board[CastleCorner(moves[i])] = Some(Piece("Rook", b.side))}

\* C27: a castle is among the moves of get_moves only when the king of the
\* side to move stands on e1 (e8) and a rook of its color in the corner of
\* the castle's side (a king or a rook that has moved earlier and is not back
\* on its square is found by this; one that has come back is not)
C27_CastlePiecesInPlace ==
    pc = "play" =>
        LET founded(moves) == Panicked(moves) \/ Unfounded(board, moves) = {}
        IN  founded(get_moves(board))

\* The square behind the target of a move by the side to move
Behind(b, m) == m.to - Forward(b)

\* The EnPassantCapture entries of the list that are no en passant of chess:
\* the target is occupied, or no opponent pawn stands behind it, or that
\* pawn did not come there by a double push on the move before (a board
\* parsed from FEN has no move before)
Unreal(b, moves) ==
    {i \in DOMAIN moves :
        /\ get_kind(moves[i]) = "EnPassantCapture"
        /\ ~ /\ b.board[moves[i].to] = None
             /\ InBoard(Behind(b, moves[i]))
             /\ b.board[Behind(b, moves[i])] = Some(Piece("Pawn", flip(b.side)))
             /\ Applied => /\ get_kind(LastMove) = "DoublePawnPush"
                           /\ LastMove.to = Behind(b, moves[i])}

\* C28: every EnPassantCapture of get_moves has an empty target, and behind
\* the target stands an opponent pawn that made a double push on the move
\* before
C28_EnPassantIsReal ==
    pc = "play" =>
        LET real(moves) == Panicked(moves) \/ Unreal(board, moves) = {}
        IN  real(get_moves(board))

\* The kinds of move that take the piece on the target square
TakingKinds ==
    {"SimpleCapture", "KnightCapturePromotion", "BishopCapturePromotion",
     "RookCapturePromotion", "QueenCapturePromotion"}

\* A move of the side to move as chess has it: from a square with an own
\* piece, to a square without one, and onto an opponent piece exactly when
\* its kind takes the piece on the target
WellFormed(b, m) ==
    /\ b.board[m.from] # None /\ b.board[m.from][1].color = b.side
    /\ ~(b.board[m.to] # None /\ b.board[m.to][1].color = b.side)
    /\ is_adversary(b, m.to, b.side) <=> get_kind(m) \in TakingKinds

\* C29: every move of get_moves starts on a piece of the side to move, does
\* not end on one, and ends on an opponent piece exactly when it is a
\* SimpleCapture or a capture-promotion
C29_WellFormedMoves ==
    pc = "play" =>
        LET formed(moves) ==
                Panicked(moves) \/ \A i \in DOMAIN moves : WellFormed(board, moves[i])
        IN  formed(get_moves(board))

\* What tells two moves apart in UCI: the from square, the to square and the
\* piece a promotion makes
MoveKey(m) == <<m.from, m.to, PromotionLetter(get_kind(m))>>

\* C30: get_moves has no two entries with the same from square, to square
\* and promotion piece
C30_NoDuplicateMoves ==
    pc = "play" =>
        LET distinct(moves) ==
                Panicked(moves)
                \/ \A i, j \in DOMAIN moves :
                        i < j => MoveKey(moves[i]) # MoveKey(moves[j])
        IN  distinct(get_moves(board))

=============================================================================
